---- MODULE Spec2Model ----
(***************************************************************************)
(* A model of the worklog package: the WorkEntry model (models.py), the    *)
(* reporting functions (reports.py), the SQLite storage layer (storage.py) *)
(* and the command-line commands (cli.py).                                 *)
(*                                                                         *)
(* Python values are represented as follows.                               *)
(*   str            a sequence of one-character strings                    *)
(*   Optional[T]    <<>> for None, <<v>> for a value v                     *)
(*   datetime.date  a record [year, month, day]                            *)
(*   dict           a function whose DOMAIN is the set of keys             *)
(*   float          the IEEE 754 double, a record [neg, bits, exp]         *)
(*   a call's outcome  [kind |-> "return" or "raise", value |-> <<..>>]    *)
(***************************************************************************)
EXTENDS Integers, Sequences, FiniteSets, TLC

VARIABLES
    entries,          \* reports: the list[WorkEntry] handed to a reporting function
    row,              \* models: the dict[str, str] handed to WorkEntry.from_row
    call,             \* the function last applied: <<name, arguments, result>>
    table,            \* storage: the rows of the SQLite table "entries", in rowid order
    sqlite_sequence,  \* storage: the largest rowid AUTOINCREMENT has handed out
    entry,            \* storage: Optional[WorkEntry], the caller's entry object
    last              \* storage / cli: the operation last run, with its outcome

vars == <<entries, row, call, table, sqlite_sequence, entry, last>>

(***************************************************************************)
(* Bounds of the model.                                                    *)
(***************************************************************************)
MaxLen == 3     \* longest list handed to a reporting function
MaxId  == 3     \* the model stops inserting once AUTOINCREMENT has reached this

(***************************************************************************)
(* Text.                                                                   *)
(***************************************************************************)
None == <<>>
Some(v) == <<v>>

DigitChars == <<"0", "1", "2", "3", "4", "5", "6", "7", "8", "9">>
IsDigit(c) == \E i \in 1..10 : DigitChars[i] = c
DigitVal(c) == (CHOOSE i \in 1..10 : DigitChars[i] = c) - 1

Whitespace == {" ", "\t"}

RECURSIVE lstrip(_)
lstrip(s) ==
    IF s /= <<>> /\ Head(s) \in Whitespace THEN lstrip(Tail(s)) ELSE s

RECURSIVE rstrip(_)
rstrip(s) ==
    IF s /= <<>> /\ s[Len(s)] \in Whitespace
    THEN rstrip(SubSeq(s, 1, Len(s) - 1))
    ELSE s

\* str.strip()
strip(s) == rstrip(lstrip(s))

\* The value of a non-empty run of decimal digits.
RECURSIVE DecimalValue(_)
DecimalValue(s) ==
    IF s = <<>> THEN 0
    ELSE 10 * DecimalValue(SubSeq(s, 1, Len(s) - 1)) + DigitVal(s[Len(s)])

AllDigits(s) == s /= <<>> /\ \A i \in 1..Len(s) : IsDigit(s[i])

\* The decimal digits of a natural number.
RECURSIVE NatText(_)
NatText(n) ==
    IF n < 10 THEN <<DigitChars[n + 1]>>
    ELSE NatText(n \div 10) \o <<DigitChars[(n % 10) + 1]>>

\* str(n) for an int
str(n) == IF n < 0 THEN <<"-">> \o NatText(0 - n) ELSE NatText(n)

\* f"{n:02d}" and f"{n:04d}" for a natural number
Pad2(n) == IF n < 10 THEN <<"0">> \o NatText(n) ELSE NatText(n)
Pad4(n) ==
    IF n < 10 THEN <<"0", "0", "0">> \o NatText(n)
    ELSE IF n < 100 THEN <<"0", "0">> \o NatText(n)
    ELSE IF n < 1000 THEN <<"0">> \o NatText(n)
    ELSE NatText(n)

\* int(text): optional surrounding whitespace, an optional sign, then digits
\* with single underscores allowed between them.  <<>> stands for ValueError.
IntBody(s) ==
    /\ s /= <<>>
    /\ IsDigit(s[1]) /\ IsDigit(s[Len(s)])
    /\ \A i \in 1..Len(s) : IsDigit(s[i]) \/ s[i] = "_"
    /\ \A i \in 1..(Len(s) - 1) : ~(s[i] = "_" /\ s[i + 1] = "_")

int(text) ==
    LET t == strip(text)
        signed == t /= <<>> /\ Head(t) \in {"+", "-"}
        body == IF signed THEN Tail(t) ELSE t
        digits == SelectSeq(body, IsDigit)
    IN  IF ~IntBody(body) THEN None
        ELSE IF signed /\ Head(t) = "-" THEN Some(0 - DecimalValue(digits))
        ELSE Some(DecimalValue(digits))

(***************************************************************************)
(* datetime.date                                                           *)
(***************************************************************************)
Date(y, m, d) == [year |-> y, month |-> m, day |-> d]

IsLeap(y) == (y % 4 = 0) /\ ((y % 100 /= 0) \/ (y % 400 = 0))

DaysInMonth(y, m) ==
    IF m = 2 THEN (IF IsLeap(y) THEN 29 ELSE 28)
    ELSE IF m \in {4, 6, 9, 11} THEN 30
    ELSE 31

\* date(year, month, day) accepts exactly these.
ValidDate(y, m, d) ==
    /\ y \in 1..9999
    /\ m \in 1..12
    /\ d \in 1..DaysInMonth(y, m)

\* a < b and a <= b on dates
date_lt(a, b) ==
    \/ a.year < b.year
    \/ a.year = b.year /\ a.month < b.month
    \/ a.year = b.year /\ a.month = b.month /\ a.day < b.day

date_le(a, b) == ~date_lt(b, a)

\* date.isoformat()
isoformat(d) == Pad4(d.year) \o <<"-">> \o Pad2(d.month) \o <<"-">> \o Pad2(d.day)

\* date.fromisoformat(text) for the YYYY-MM-DD form; <<>> stands for ValueError.
fromisoformat(s) ==
    IF /\ Len(s) = 10
       /\ s[5] = "-" /\ s[8] = "-"
       /\ AllDigits(SubSeq(s, 1, 4))
       /\ AllDigits(SubSeq(s, 6, 7))
       /\ AllDigits(SubSeq(s, 9, 10))
    THEN LET y == DecimalValue(SubSeq(s, 1, 4))
             m == DecimalValue(SubSeq(s, 6, 7))
             d == DecimalValue(SubSeq(s, 9, 10))
         IN  IF ValidDate(y, m, d) THEN Some(Date(y, m, d)) ELSE None
    ELSE None

\* d - timedelta(days=1)
PrevDay(d) ==
    IF d.day > 1 THEN Date(d.year, d.month, d.day - 1)
    ELSE IF d.month > 1 THEN Date(d.year, d.month - 1, DaysInMonth(d.year, d.month - 1))
    ELSE Date(d.year - 1, 12, 31)

\* d - timedelta(days=n)
RECURSIVE MinusDays(_, _)
MinusDays(d, n) == IF n = 0 THEN d ELSE MinusDays(PrevDay(d), n - 1)

(***************************************************************************)
(* models.py                                                               *)
(***************************************************************************)
Return(v) == [kind |-> "return", value |-> <<v>>]
Raise(exc) == [kind |-> "raise", value |-> <<exc>>]

\* The __init__ that @dataclass generates for WorkEntry: the four fields are
\* required arguments, none has a default.
WorkEntry(kwargs) ==
    IF DOMAIN kwargs = {"id", "day", "project", "minutes"}
    THEN Return([id |-> kwargs.id, day |-> kwargs.day,
                 project |-> kwargs.project, minutes |-> kwargs.minutes])
    ELSE Raise("TypeError")

\* dict.get(key, "")
get(d, key) == IF key \in DOMAIN d THEN d[key] ELSE <<>>

NoProject == <<"(", "n", "o", " ", "p", "r", "o", "j", "e", "c", "t", ")">>

\* WorkEntry.from_row(row)
from_row(r) ==
    LET day_text == strip(get(r, "date"))
        project == strip(get(r, "project"))
        minutes_text == strip(get(r, "minutes"))
        day_value == fromisoformat(day_text)
        minutes_value == int(minutes_text)
    IN  IF day_value = None THEN Return(None)
        ELSE IF minutes_value = None THEN Return(None)
        ELSE IF minutes_value[1] < 0 THEN Return(None)
        ELSE LET made == WorkEntry([day |-> day_value[1],
                                    project |-> IF project = <<>> THEN NoProject ELSE project,
                                    minutes |-> minutes_value[1]])
             IN  IF made.kind = "raise" THEN made
                 ELSE Return(Some(made.value[1]))

(***************************************************************************)
(* reports.py                                                              *)
(***************************************************************************)
\* minutes_to_hhmm(total_minutes): f"{hours}:{minutes:02d}"
minutes_to_hhmm(total_minutes) ==
    LET hours == total_minutes \div 60
        minutes == total_minutes % 60
    IN  str(hours) \o <<":">> \o Pad2(minutes)

\* AddTo with "=" written for "+=": the entry's minutes replace the total so far
AddTo_assign(totals, key, amount) ==
    [p \in (DOMAIN totals) \cup {key} |-> IF p = key THEN amount ELSE totals[p]]

\* totals[key] += amount on a defaultdict(int)
AddTo(totals, key, amount) ==
    [p \in (DOMAIN totals) \cup {key} |->
        IF p = key
        THEN (IF key \in DOMAIN totals THEN totals[key] ELSE 0) + amount
        ELSE totals[p]]

\* the loop of totals_by_project, from the totals so far over the entries left
RECURSIVE totals_loop(_, _)
totals_loop(totals, es) ==
    IF es = <<>> THEN totals
    ELSE totals_loop(AddTo(totals, Head(es).project, Head(es).minutes), Tail(es))

\* totals_by_project(entries)
totals_by_project(es) == totals_loop(<<>>, es)

\* summary_loop with days_seen kept per entry, so that a shared date counts twice
RECURSIVE summary_loop_per_entry(_, _)
summary_loop_per_entry(acc, es) ==
    IF es = <<>> THEN acc
    ELSE summary_loop_per_entry(
            [total_minutes |-> acc.total_minutes + Head(es).minutes,
             days_seen |-> acc.days_seen \cup {<<Head(es).day, Len(es)>>}],
            Tail(es))

\* the loop of summary: [total_minutes, days_seen] so far, over the entries left
RECURSIVE summary_loop(_, _)
summary_loop(acc, es) ==
    IF es = <<>> THEN acc
    ELSE summary_loop([total_minutes |-> acc.total_minutes + Head(es).minutes,
                       days_seen |-> acc.days_seen \cup {Head(es).day}],
                      Tail(es))

(* A float is the IEEE 754 double Python computes with, kept exactly:      *)
(*   [neg, bits, exp]  with bits the 53 binary digits of the significand,  *)
(*   most significant (always 1) first, and exp the power of two of that   *)
(*   first digit; 0.0 has bits = <<>>.                                     *)
MantissaBits == 53

\* the powers of two an int can hold, 2^0 first
PowersOfTwo ==
    <<1, 2, 4, 8, 16, 32, 64, 128, 256, 512, 1024, 2048, 4096, 8192, 16384,
      32768, 65536, 131072, 262144, 524288, 1048576, 2097152, 4194304,
      8388608, 16777216, 33554432, 67108864, 134217728, 268435456,
      536870912, 1073741824>>
Pow2(w) == PowersOfTwo[w + 1]

\* how many binary digits a natural number below 2^31 has
BitLength(n) ==
    IF n = 0 THEN 0
    ELSE CHOOSE w \in 1..31 :
            /\ n >= Pow2(w - 1)
            /\ w < 31 => n < Pow2(w)

\* the w binary digits of n < 2^w, most significant first
PadBits(n, w) == [i \in 1..w |-> (n \div Pow2(w - i)) % 2]

\* the binary digits of a natural number, most significant first
NatBits(n) == PadBits(n, BitLength(n))

Zeros(k) == [i \in 1..k |-> 0]

\* the number that at most 30 binary digits spell
RECURSIVE BitsValue(_)
BitsValue(digits) ==
    IF digits = <<>> THEN 0
    ELSE IF Len(digits) = 1 THEN digits[1]
    ELSE LET n == Len(digits)
             h == n \div 2
         IN  BitsValue(SubSeq(digits, 1, h)) * Pow2(n - h)
                 + BitsValue(SubSeq(digits, h + 1, n))

\* digits * k + carry on binary digits, for 0 <= k, carry < 2^15; the digits
\* are taken Chunk at a time from the low end so that each step is int
\* arithmetic
Chunk == 15

RECURSIVE MulSmall(_, _, _)
MulSmall(digits, k, carry) ==
    IF digits = <<>> THEN NatBits(carry)
    ELSE LET n == Len(digits)
             w == IF n < Chunk THEN n ELSE Chunk
             v == BitsValue(SubSeq(digits, n - w + 1, n)) * k + carry
         IN  MulSmall(SubSeq(digits, 1, n - w), k, v \div Pow2(w))
                 \o PadBits(v % Pow2(w), w)

\* digits + carry, on binary digits
AddSmall(digits, carry) == MulSmall(digits, 1, carry)

\* Chunk more binary digits of r / b, for 0 <= r < b < 2^16, as a number,
\* and what is left of r after them
ChunkQuot(r, b) == (r * Pow2(Chunk)) \div b
ChunkRem(r, b) == (r * Pow2(Chunk)) % b

\* the first 5 * Chunk binary digits of r / b after the point, and what is
\* left of r after them
FracDigits(r, b) ==
    LET r1 == ChunkRem(r, b)
        r2 == ChunkRem(r1, b)
        r3 == ChunkRem(r2, b)
        r4 == ChunkRem(r3, b)
    IN  PadBits(ChunkQuot(r, b), Chunk) \o PadBits(ChunkQuot(r1, b), Chunk)
            \o PadBits(ChunkQuot(r2, b), Chunk) \o PadBits(ChunkQuot(r3, b), Chunk)
            \o PadBits(ChunkQuot(r4, b), Chunk)

FracLeft(r, b) == ChunkRem(ChunkRem(ChunkRem(ChunkRem(ChunkRem(r, b), b), b), b), b)

\* round-half-even of the digits (first digit 1, of power exp) to a double;
\* sticky says that something non-zero follows the digits given
RoundToDouble(neg, digits, sticky, exp) ==
    IF Len(digits) <= MantissaBits
    THEN [neg |-> neg, bits |-> digits \o Zeros(MantissaBits - Len(digits)), exp |-> exp]
    ELSE LET kept == SubSeq(digits, 1, MantissaBits)
             guard == digits[MantissaBits + 1]
             rest == sticky \/ \E i \in (MantissaBits + 2)..Len(digits) : digits[i] = 1
             up == guard = 1 /\ (rest \/ kept[MantissaBits] = 1)
             more == AddSmall(kept, 1)
         IN  IF ~up THEN [neg |-> neg, bits |-> kept, exp |-> exp]
             ELSE IF Len(more) > MantissaBits
             THEN [neg |-> neg, bits |-> SubSeq(more, 1, MantissaBits), exp |-> exp + 1]
             ELSE [neg |-> neg, bits |-> more, exp |-> exp]

\* the float literal 0.0
ZeroFloat == [neg |-> FALSE, bits |-> <<>>, exp |-> 0]

\* stands for the ZeroDivisionError that a / 0 raises: digits no double has
ZeroDivisionError == [neg |-> FALSE, bits |-> <<0>>, exp |-> 0]

\* float(n) for an int n
IntToFloat(n) ==
    IF n = 0 THEN ZeroFloat
    ELSE LET digits == NatBits(IF n < 0 THEN 0 - n ELSE n)
         IN  RoundToDouble(n < 0, digits, FALSE, Len(digits) - 1)

\* a / b for ints a and b: the double nearest to the quotient
TrueDiv(a, b) ==
    IF b = 0 THEN ZeroDivisionError
    ELSE IF a = 0 THEN ZeroFloat
    ELSE LET neg == (a < 0) /= (b < 0)
             n == IF a < 0 THEN 0 - a ELSE a
             d == IF b < 0 THEN 0 - b ELSE b
             whole == NatBits(n \div d)
             digits == whole \o FracDigits(n % d, d)
             first == CHOOSE i \in 1..Len(digits) :
                         digits[i] = 1 /\ \A j \in 1..(i - 1) : digits[j] = 0
         IN  RoundToDouble(neg, SubSeq(digits, first, Len(digits)),
                           FracLeft(n % d, d) /= 0, Len(whole) - first)

\* x * k for a float x and an int k >= 0
FloatTimesInt(x, k) ==
    IF x.bits = <<>> \/ k = 0 THEN ZeroFloat
    ELSE LET product == MulSmall(x.bits, k, 0)
         IN  RoundToDouble(x.neg, product, FALSE, x.exp + (Len(product) - MantissaBits))

\* summary(entries)
summary(es) ==
    IF Len(es) = 0
    THEN [entries |-> 0, total_minutes |-> 0, days |-> 0,
          avg_minutes_per_day |-> ZeroFloat]
    ELSE LET acc == summary_loop([total_minutes |-> 0, days_seen |-> {}], es)
         IN  [entries |-> Len(es),
              total_minutes |-> acc.total_minutes,
              days |-> Cardinality(acc.days_seen),
              avg_minutes_per_day |-> TrueDiv(acc.total_minutes, Cardinality(acc.days_seen))]

(***************************************************************************)
(* cli.py: helpers                                                         *)
(***************************************************************************)
\* parse_date_iso(text): <<>> stands for argparse.ArgumentTypeError
parse_date_iso(text) == fromisoformat(text)

\* parse_minutes(text): <<>> stands for argparse.ArgumentTypeError
parse_minutes(text) ==
    LET minutes == int(text)
    IN  IF minutes = None THEN None
        ELSE IF minutes[1] < 0 THEN None
        ELSE minutes

\* filter_by_date_range without the swap of reversed bounds
filter_by_date_range_no_swap(es, start, end) ==
    SelectSeq(es, LAMBDA e : date_le(start, e.day) /\ date_le(e.day, end))

\* filter_by_date_range(entries, start, end)
filter_by_date_range(es, start, end) ==
    LET swap == date_lt(end, start)
        lo == IF swap THEN end ELSE start
        hi == IF swap THEN start ELSE end
    IN  SelectSeq(es, LAMBDA e : date_le(lo, e.day) /\ date_le(e.day, hi))

(***************************************************************************)
(* Values the model draws its inputs from.                                 *)
(***************************************************************************)
Thesis == <<"T", "h", "e", "s", "i", "s">>
thesis == <<"t", "h", "e", "s", "i", "s">>
Code   == <<"C", "o", "d", "e">>

Days == {Date(2026, 1, 1), Date(2026, 1, 2), Date(2026, 1, 31)}

\* the project and minutes of an entry: two labels that differ only in case,
\* and an entry of no minutes
ProjectMinutes == {<<Thesis, 20>>, <<thesis, 20>>, <<thesis, 0>>}

\* entries as a caller of the reporting functions holds them
ReportEntries ==
    { [id |-> None, day |-> d, project |-> pm[1], minutes |-> pm[2]] :
        d \in Days, pm \in ProjectMinutes }

SeqsUpTo(S, n) == UNION {[1..k -> S] : k \in 0..n}

\* a week of entries, one a day from 2026-01-05 on, of 4 or 5 minutes each
WeekLists ==
    { [i \in 1..7 |-> [id |-> None, day |-> Date(2026, 1, 4 + i),
                       project |-> Thesis, minutes |-> m[i]]] :
        m \in [1..7 -> {4, 5}] }

\* raw texts for the three fields of a row
DateTexts ==
    { <<"2", "0", "2", "6", "-", "0", "1", "-", "0", "1">>,
      <<" ", "2", "0", "2", "4", "-", "0", "2", "-", "2", "9", " ">>,
      <<"2", "0", "2", "6", "-", "0", "2", "-", "2", "9">>,
      <<"2", "0", "2", "6", "-", "1", "3", "-", "4", "0">>,
      <<"0", "1", "/", "0", "2", "/", "2", "0", "2", "6">>,
      <<"2", "0", "2", "6", "-", "1", "-", "1">>,
      <<>> }
ProjectTexts ==
    { Thesis, <<" ", "C", "o", "d", "e", " ">>, <<" ", " ">>, <<>> }
MinutesTexts ==
    { <<"4", "5">>, <<"0">>, <<" ", "7", " ">>, <<"+", "5">>, <<"1", "_", "0">>,
      <<"-", "5">>, <<"a", "b", "c">>, <<"4", ".", "5">>, <<>> }

\* rows: every field present, or one of them missing
Rows ==
    [date : DateTexts, project : ProjectTexts, minutes : MinutesTexts]
    \cup [date : DateTexts, minutes : MinutesTexts]
    \cup [project : ProjectTexts, minutes : MinutesTexts]
    \cup [date : DateTexts, project : ProjectTexts]

NoCall == <<"none">>

(***************************************************************************)
(* SpecParse: WorkEntry.from_row applied to a row.                         *)
(***************************************************************************)
StoreIdle ==
    /\ table = <<>>
    /\ sqlite_sequence = 0
    /\ entry = None
    /\ last = <<"none">>

InitParse ==
    /\ row \in Rows
    /\ entries = <<>>
    /\ call = NoCall
    /\ StoreIdle

Call_from_row ==
    /\ call' = <<"from_row", from_row(row)>>
    /\ UNCHANGED <<entries, row, table, sqlite_sequence, entry, last>>

NextParse == Call_from_row

SpecParse == InitParse /\ [][NextParse]_vars

(***************************************************************************)
(* SpecReports: the reporting functions applied to a list of entries.      *)
(***************************************************************************)
InitReports ==
    /\ entries \in SeqsUpTo(ReportEntries, MaxLen) \cup WeekLists
    /\ row = <<>>
    /\ call = NoCall
    /\ StoreIdle

Call_totals_by_project ==
    /\ call' = <<"totals_by_project", totals_by_project(entries)>>
    /\ UNCHANGED <<entries, row, table, sqlite_sequence, entry, last>>

Call_filter_by_date_range ==
    \E start \in Days, end \in Days :
        /\ call' = <<"filter_by_date_range", start, end,
                     filter_by_date_range(entries, start, end)>>
        /\ UNCHANGED <<entries, row, table, sqlite_sequence, entry, last>>

Call_summary ==
    /\ call' = <<"summary", summary(entries)>>
    /\ UNCHANGED <<entries, row, table, sqlite_sequence, entry, last>>

NextReports ==
    \/ Call_totals_by_project
    \/ Call_filter_by_date_range
    \/ Call_summary

SpecReports == InitReports /\ [][NextReports]_vars

(***************************************************************************)
(* storage.py                                                              *)
(*                                                                         *)
(* initialize_database() runs CREATE TABLE IF NOT EXISTS before every      *)
(* operation, so the table is there for each of them; table = <<>> is the  *)
(* table without rows.  A row is [id, day, project, minutes] with day the  *)
(* ISO text the column holds.                                              *)
(***************************************************************************)
\* an id scheme that numbers a new row by the count of rows
NextRowid_count(t, seq) == Len(t) + 1

\* the rowid an INTEGER PRIMARY KEY AUTOINCREMENT column gives to a new row:
\* one more than the largest rowid the table has ever held
NextRowid(t, seq) == seq + 1

\* the rows left by DELETE FROM entries WHERE id <= ?
DeleteWhere_upto(t, entry_id) == SelectSeq(t, LAMBDA r : r.id > entry_id)

\* the rows left by DELETE FROM entries WHERE id = ?
DeleteWhere(t, entry_id) == SelectSeq(t, LAMBDA r : r.id /= entry_id)

\* load_entries(): SELECT id, day, project, minutes FROM entries, each row
\* made into a WorkEntry
load_entries(t) ==
    [i \in 1..Len(t) |->
        WorkEntry([id |-> Some(t[i].id),
                   day |-> fromisoformat(t[i].day)[1],
                   project |-> t[i].project,
                   minutes |-> t[i].minutes]).value[1]]

\* the INSERT of add_entry and the rowid it reports in cursor.lastrowid
Insert(e) ==
    LET rowid == NextRowid(table, sqlite_sequence)
    IN  /\ table' = Append(table, [id |-> rowid, day |-> isoformat(e.day),
                                   project |-> e.project, minutes |-> e.minutes])
        /\ sqlite_sequence' = rowid

\* the entries a caller constructs: a valid one, one with an empty project
\* and one with negative minutes (the dataclass checks none of its fields)
StoreEntries ==
    { [day |-> Date(2026, 1, 1), project |-> Thesis, minutes |-> 30],
      [day |-> Date(2026, 1, 2), project |-> <<>>, minutes |-> 45],
      [day |-> Date(2026, 1, 2), project |-> Thesis, minutes |-> -5] }

\* a caller constructs an entry that is not yet persisted
NewWorkEntry ==
    \E fields \in StoreEntries :
        /\ entry' = Some(WorkEntry([id |-> None, day |-> fields.day,
                                    project |-> fields.project,
                                    minutes |-> fields.minutes]).value[1])
        /\ last' = <<"WorkEntry">>
        /\ UNCHANGED <<entries, row, call, table, sqlite_sequence>>

\* add_entry(entry) on the caller's entry object
add_entry ==
    /\ entry /= None
    /\ sqlite_sequence < MaxId
    /\ Insert(entry[1])
    /\ entry' = Some([entry[1] EXCEPT !.id = Some(sqlite_sequence')])
    /\ last' = <<"add_entry">>
    /\ UNCHANGED <<entries, row, call>>

\* delete_all_entries(): DELETE FROM entries
delete_all_entries ==
    /\ table' = <<>>
    /\ last' = <<"delete_all_entries">>
    /\ UNCHANGED <<entries, row, call, sqlite_sequence, entry>>

\* delete_entry(entry_id)
delete_entry ==
    \E entry_id \in 1..(MaxId + 1) :
        /\ table' = DeleteWhere(table, entry_id)
        /\ last' = <<"delete_entry", entry_id>>
        /\ UNCHANGED <<entries, row, call, sqlite_sequence, entry>>

ReportsIdle ==
    /\ entries = <<>>
    /\ row = <<>>
    /\ call = NoCall

InitStore ==
    /\ ReportsIdle
    /\ table = <<>>
    /\ sqlite_sequence = 0
    /\ entry = None
    /\ last = <<"none">>

NextStore ==
    \/ NewWorkEntry
    \/ add_entry
    \/ delete_all_entries
    \/ delete_entry

SpecStore == InitStore /\ [][NextStore]_vars

(***************************************************************************)
(* cli.py: the commands, as main() runs them after argparse has converted  *)
(* the arguments.  An argument its type function rejects ends the run      *)
(* with a usage error before any command starts.                           *)
(***************************************************************************)
\* grand_total += mins over the items of totals
RECURSIVE grand_total_loop(_, _)
grand_total_loop(totals, K) ==
    IF K = {} THEN 0
    ELSE LET k == CHOOSE x \in K : TRUE
         IN  totals[k] + grand_total_loop(totals, K \ {k})

\* the report dict cmd_report builds from the loaded entries and the range
BuildReport(loaded, start, end) ==
    LET es == filter_by_date_range(loaded, start, end)
        totals == totals_by_project(es)
        grand_total == grand_total_loop(totals, DOMAIN totals)
    IN  IF Len(es) = 0
        THEN [start |-> isoformat(start),
              end |-> isoformat(end),
              count |-> Len(es),
              totals_by_project |-> <<>>,
              grand_total_minutes |-> 0]
        ELSE [start |-> isoformat(start),
              end |-> isoformat(end),
              count |-> Len(es),
              totals_by_project |-> totals,
              grand_total_minutes |-> grand_total,
              grand_total_hhmm |-> minutes_to_hhmm(grand_total),
              totals_by_project_hhmm |->
                  [p \in DOMAIN totals |-> minutes_to_hhmm(totals[p])]]

ISO_2026_01_01 == <<"2", "0", "2", "6", "-", "0", "1", "-", "0", "1">>
ISO_2026_01_02 == <<"2", "0", "2", "6", "-", "0", "1", "-", "0", "2">>
ISO_2026_13_40 == <<"2", "0", "2", "6", "-", "1", "3", "-", "4", "0">>

CliAddDates == {ISO_2026_01_01, ISO_2026_01_02, ISO_2026_13_40}
CliProjects == {Thesis, <<>>}
CliMinutes == {<<"9", "0">>, <<"-", "5">>}
CliRangeDates == {ISO_2026_01_01, ISO_2026_01_02}
Todays == {Date(2026, 1, 2), Date(2026, 3, 1)}
JsonPath == <<"r", ".", "j", "s", "o", "n">>

\* worklog add --date D --project P --minutes M
cmd_add ==
    \E date_text \in CliAddDates, project \in CliProjects, minutes_text \in CliMinutes :
        LET date == parse_date_iso(date_text)
            minutes == parse_minutes(minutes_text)
        IN  /\ IF date = None \/ minutes = None
               THEN /\ last' = <<"usage_error">>
                    /\ UNCHANGED <<table, sqlite_sequence>>
               ELSE /\ sqlite_sequence < MaxId
                    /\ Insert(WorkEntry([id |-> None, day |-> date[1],
                                         project |-> project,
                                         minutes |-> minutes[1]]).value[1])
                    /\ last' = <<"cmd_add", sqlite_sequence'>>
            /\ UNCHANGED <<entries, row, call, entry>>

\* worklog delete --id N
cmd_delete ==
    \E entry_id \in 1..(MaxId + 1) :
        /\ table' = DeleteWhere(table, entry_id)
        /\ last' = <<"cmd_delete", entry_id>>
        /\ UNCHANGED <<entries, row, call, sqlite_sequence, entry>>

OptionalOf(S) == {None} \cup {Some(x) : x \in S}

\* worklog report [--start S] [--end E] [--json PATH]
\* last' = <<"cmd_report", args, report, the document written to PATH if any>>
\* date.today() is read only when --start or --end is missing
cmd_report ==
    LET loaded == load_entries(table)
    IN  \E start_text \in OptionalOf(CliRangeDates), end_text \in OptionalOf(CliRangeDates),
           json \in OptionalOf({JsonPath}) :
            LET args == [start |-> IF start_text = None THEN None
                                   ELSE parse_date_iso(start_text[1]),
                         end |-> IF end_text = None THEN None
                                 ELSE parse_date_iso(end_text[1]),
                         json |-> json]
                default == args.start = None \/ args.end = None
            IN  \E today \in (IF default THEN Todays ELSE {Date(1, 1, 1)}) :
                    LET start == IF default THEN MinusDays(today, 6) ELSE args.start[1]
                        end == IF default THEN today ELSE args.end[1]
                        report == BuildReport(loaded, start, end)
                    IN  /\ last' = <<"cmd_report", args, report,
                                     IF args.json /= None THEN Some(report) ELSE None>>
                        /\ UNCHANGED <<entries, row, call, table, sqlite_sequence, entry>>

InitCli ==
    /\ ReportsIdle
    /\ table = <<>>
    /\ sqlite_sequence = 0
    /\ entry = None
    /\ last = <<"none">>

NextCli ==
    \/ cmd_add
    \/ cmd_delete
    \/ cmd_report

SpecCli == InitCli /\ [][NextCli]_vars

(***************************************************************************)
(* Properties of the reporting functions and of from_row.                  *)
(***************************************************************************)
\* the sum of minutes over the entries at the positions I of the list es
RECURSIVE MinutesAt(_, _)
MinutesAt(es, I) ==
    IF I = {} THEN 0
    ELSE LET i == CHOOSE j \in I : TRUE
         IN  es[i].minutes + MinutesAt(es, I \ {i})

\* the sum of the values of a dict over the keys K
RECURSIVE ValuesSum(_, _)
ValuesSum(d, K) ==
    IF K = {} THEN 0
    ELSE LET k == CHOOSE x \in K : TRUE
         IN  d[k] + ValuesSum(d, K \ {k})

\* what the call last made returned
out == call[Len(call)]

\* a date as one number, ordered as the calendar is
DateKey(d) == d.year * 10000 + d.month * 100 + d.day

\* C1: totals_by_project returns a mapping whose keys are exactly the project
\* labels occurring in the list, whose value for a project is the sum of the
\* minutes of the entries with that project, and whose values sum to the
\* minutes of all entries.
C1_TotalsByProject ==
    call[1] = "totals_by_project" =>
        /\ DOMAIN out = {entries[i].project : i \in 1..Len(entries)}
        /\ \A p \in DOMAIN out :
             out[p] = MinutesAt(entries, {i \in 1..Len(entries) : entries[i].project = p})
        /\ ValuesSum(out, DOMAIN out) = MinutesAt(entries, 1..Len(entries))

\* three entries, two of them sharing a project with minutes to add up, the
\* third under a label that differs only in case
C1_Witness ==
    /\ call[1] = "totals_by_project"
    /\ Len(entries) = 3
    /\ entries[1].project = Thesis /\ entries[3].project = Thesis
    /\ entries[2].project = thesis
    /\ entries[1].minutes = 20 /\ entries[3].minutes = 20
    /\ out[Thesis] = 40

\* C2: filter_by_date_range(entries, A, B) returns, in input order, exactly the
\* entries whose day lies between min(A, B) and max(A, B), both included, and
\* so returns the same for (A, B) and (B, A).
C2_FilterByDateRange ==
    call[1] = "filter_by_date_range" =>
        LET A == call[2]
            B == call[3]
            lo == IF DateKey(A) <= DateKey(B) THEN DateKey(A) ELSE DateKey(B)
            hi == IF DateKey(A) <= DateKey(B) THEN DateKey(B) ELSE DateKey(A)
        IN  /\ out = SelectSeq(entries,
                        LAMBDA e : lo <= DateKey(e.day) /\ DateKey(e.day) <= hi)
            /\ out = filter_by_date_range(entries, B, A)

\* bounds given backwards, an entry on each bound kept and one outside dropped
C2_Witness ==
    /\ call[1] = "filter_by_date_range"
    /\ date_lt(call[3], call[2])
    /\ Len(entries) = 3 /\ Len(out) = 2
    /\ \E i \in 1..2 : out[i].day = call[2]
    /\ \E i \in 1..2 : out[i].day = call[3]

\* x <= y on binary digits without leading zeros
LeqBits(x, y) ==
    \/ Len(x) < Len(y)
    \/ /\ Len(x) = Len(y)
       /\ \/ x = y
          \/ \E i \in 1..Len(x) :
                /\ x[i] < y[i]
                /\ \A j \in 1..(i - 1) : x[j] = y[j]

\* x is a double within half a unit in its last place of a / b, for a >= 0
\* and b > 0: with m the significand of x as a whole number and x = m / 2^s,
\* 2 * |m * b - a * 2^s| <= b, and m is even when that is an equality
NearestDouble(x, a, b) ==
    IF a = 0 THEN x = ZeroFloat
    ELSE LET s == (MantissaBits - 1) - x.exp
             X == MulSmall(x.bits, 2 * b, 0)
             Y == NatBits(a) \o Zeros(s + 1)
         IN  /\ ~x.neg
             /\ Len(x.bits) = MantissaBits /\ x.bits[1] = 1
             /\ \A i \in 1..MantissaBits : x.bits[i] \in {0, 1}
             /\ s + 1 >= 0
             /\ LeqBits(X, AddSmall(Y, b))
             /\ LeqBits(Y, AddSmall(X, b))
             /\ (X = AddSmall(Y, b) \/ Y = AddSmall(X, b)) => x.bits[MantissaBits] = 0

\* what summary returns apart from the average
SummaryCounts ==
    /\ out.entries = Len(entries)
    /\ out.total_minutes = MinutesAt(entries, 1..Len(entries))
    /\ out.days = Cardinality({entries[i].day : i \in 1..Len(entries)})
    /\ out.avg_minutes_per_day /= ZeroDivisionError
    /\ entries = <<>> =>
         /\ out.entries = 0 /\ out.total_minutes = 0 /\ out.days = 0
         /\ out.avg_minutes_per_day = ZeroFloat

\* C9 as claimed: summary returns the number of entries, the sum of their
\* minutes, the number of distinct days and, for a non-empty list, an average
\* with avg_minutes_per_day * days = total_minutes; for the empty list all
\* four are zero and nothing is divided by zero.
C9_Summary_AsClaimed ==
    call[1] = "summary" =>
        /\ SummaryCounts
        /\ entries /= <<>> =>
             FloatTimesInt(out.avg_minutes_per_day, out.days) = IntToFloat(out.total_minutes)

\* C9 as amended: the same, with the average being total_minutes / days
\* rounded to a double (within half a unit in the last place of the quotient).
C9_Summary ==
    call[1] = "summary" =>
        /\ SummaryCounts
        /\ entries /= <<>> =>
             NearestDouble(out.avg_minutes_per_day, out.total_minutes, out.days)

\* three entries over two days, two of them on the same date, 40 minutes in all
C9_Witness ==
    /\ call[1] = "summary"
    /\ Len(entries) = 3
    /\ entries[1].day = entries[2].day
    /\ entries[3].day /= entries[1].day
    /\ out.days = 2
    /\ out.total_minutes = 40
    /\ out.avg_minutes_per_day = IntToFloat(20)

\* C3: from_row never raises; for a valid date text and a minutes text that
\* is an integer >= 0 it returns the entry with that day, those minutes, an
\* unset id and the trimmed project ("(no project)" when that is empty), and
\* in every other case it returns None.
C3_FromRow ==
    call[1] = "from_row" =>
        LET d == fromisoformat(strip(get(row, "date")))
            m == int(strip(get(row, "minutes")))
            project == strip(get(row, "project"))
        IN  /\ out.kind = "return"
            /\ IF d /= None /\ m /= None /\ m[1] >= 0
               THEN out.value[1] =
                        Some([id |-> None, day |-> d[1],
                              project |-> IF project = <<>> THEN NoProject ELSE project,
                              minutes |-> m[1]])
               ELSE out.value[1] = None

(***************************************************************************)
(* Properties of the storage layer.                                        *)
(***************************************************************************)
StoredIds(t) == {t[i].id : i \in 1..Len(t)}

\* every entry load_entries returns has a positive id, and no two share one
IdsPositiveUnique ==
    LET loaded == load_entries(table)
    IN  /\ \A i \in 1..Len(loaded) :
             loaded[i].id /= None /\ loaded[i].id[1] > 0
        /\ \A i, j \in 1..Len(loaded) :
             loaded[i].id = loaded[j].id => i = j

\* a step of add_entry(e): load_entries returns what it returned before plus
\* one record with e's day, project and minutes under the id e now carries,
\* an id no stored entry had
AddEntryStep ==
    last' = <<"add_entry">> =>
        /\ entry'[1].id /= None
        /\ load_entries(table') =
             Append(load_entries(table),
                    [id |-> entry'[1].id, day |-> entry[1].day,
                     project |-> entry[1].project, minutes |-> entry[1].minutes])
        /\ entry'[1].id[1] \notin StoredIds(table)

\* C4: after any sequence of add_entry, delete_entry and delete_all_entries
\* every loaded entry has a positive id that no other loaded entry shares, and
\* add_entry(e) adds to what load_entries returns exactly one record, equal to
\* e in day, project and minutes, under the fresh id assigned to e.
C4_IdsAndRoundTrip == [] IdsPositiveUnique /\ [][AddEntryStep]_vars

\* an entry added after an earlier one was deleted: two rows, the third id
C4_Witness ==
    /\ last = <<"add_entry">>
    /\ Len(table) = 2
    /\ sqlite_sequence = 3
    /\ entry[1].id = Some(3)
    /\ load_entries(table)[2] = entry[1]

ValidEntry(e) == e.minutes >= 0 /\ e.project /= <<>>

\* C5: add_entry with an entry that has negative minutes or an empty project
\* fails and leaves the store unchanged, so every stored entry has
\* minutes >= 0 and a non-empty project.
C5_InsertRejectsInvalid ==
    /\ [][(last' = <<"add_entry">> /\ ~ValidEntry(entry[1])) => table' = table]_vars
    /\ [](\A i \in 1..Len(table) : ValidEntry(load_entries(table)[i]))

\* C6: an entry's id is unset when the entry is constructed, set by the first
\* add_entry, and changed by no operation after that, add_entry included.
C6_IdAssignedOnce ==
    [][/\ last' = <<"WorkEntry">> => entry'[1].id = None
       /\ (last' = <<"add_entry">> /\ entry[1].id = None) => entry'[1].id /= None
       /\ (last' /= <<"WorkEntry">> /\ entry /= None /\ entry[1].id /= None)
              => entry' = entry]_vars

\* a step of delete_entry(id)
DeleteEntryStep ==
    last'[1] = "delete_entry" =>
        LET entry_id == last'[2]
        IN  /\ load_entries(table') =
                 SelectSeq(load_entries(table), LAMBDA e : e.id /= Some(entry_id))
            /\ entry_id \notin StoredIds(table) =>
                 table' = table /\ Len(load_entries(table')) = Len(load_entries(table))
            /\ DeleteWhere(table', entry_id) = table'
            /\ sqlite_sequence' = sqlite_sequence
            /\ entry' = entry

\* C7: delete_entry(id) removes the stored entry with that id and nothing
\* else; with no such entry it leaves the stored entries unchanged, and a
\* second delete_entry(id) leaves the store as the first left it.
C7_DeleteEntry == [][DeleteEntryStep]_vars

\* delete_entry with an id that was never handed out, on a store of two rows
C7_Witness ==
    /\ last[1] = "delete_entry"
    /\ last[2] > sqlite_sequence
    /\ Len(table) = 2

(***************************************************************************)
(* Properties of the report command.                                       *)
(***************************************************************************)
ReportFields ==
    {"start", "end", "count", "totals_by_project", "grand_total_minutes",
     "totals_by_project_hhmm", "grand_total_hhmm"}

\* C8: every report document has all seven fields; with no entry in range
\* they hold count 0, empty mappings and a grand total of 0.
C8_ReportFields ==
    last[1] = "cmd_report" =>
        LET report == last[3]
        IN  /\ DOMAIN report = ReportFields
            /\ report.count = 0 =>
                 /\ report.totals_by_project = <<>>
                 /\ report.totals_by_project_hhmm = <<>>
                 /\ report.grand_total_minutes = 0

\* C10: a report built from a given --start and --end states a range whose
\* start is not after its end, and its count is the number of stored entries
\* whose day lies in that stated range.
C10_ReportRange ==
    (last[1] = "cmd_report" /\ last[2].start /= None /\ last[2].end /= None) =>
        LET report == last[3]
            s == DateKey(fromisoformat(report.start)[1])
            e == DateKey(fromisoformat(report.end)[1])
            loaded == load_entries(table)
        IN  /\ s <= e
            /\ report.count =
                 Cardinality({i \in 1..Len(loaded) :
                                s <= DateKey(loaded[i].day) /\ DateKey(loaded[i].day) <= e})

====
